---- MODULE Spec2Model ----
(***************************************************************************)
(* Tensor-domain IR of torch/csrc/jit/fuser/common/tensor.h: IterDomain,   *)
(* TensorDomain, Tensor, TensorView, the Split / Merge / Reorder records   *)
(* and the transformation API (split, merge, reorder, computeAt).          *)
(*                                                                         *)
(* Pointers are handles into arenas (1-based positions in the sequences    *)
(* tensors, domains, views, exprs); 0 is nullptr.  Axis numbers are the    *)
(* 0-based ints of the C++ code.                                           *)
(***************************************************************************)
EXTENDS Integers, Sequences, FiniteSets, TLC

VARIABLES
  tensors,   \* arena of Tensor nodes
  domains,   \* arena of TensorDomain nodes (each a vector of IterDomain)
  views,     \* arena of TensorView nodes
  exprs,     \* arena of Split / Merge / Reorder nodes of the Fusion
  nApplied,  \* history: per view, the number of transformations that built it
  lastBind,  \* history: per view, the arguments of its last accepted computeAt
  last       \* the call that has just returned to the caller, with its
             \* outcome; NoCall when the caller is between calls

vars == <<tensors, domains, views, exprs, nApplied, lastBind, last>>

(***************************************************************************)
(* Bounds of the model.                                                    *)
(***************************************************************************)
MaxTransforms == 2
MaxNativeRank == 2
DummyRank == 1
\* Under SpecSched: the transformations applied among the computeAt calls.
MaxSchedTransforms == 1
\* Under SpecAxis: the rank of the domain and the size of the index.
MaxAxisRank == 3
MaxIndex == 5

nullptr == 0

\* 0-based element of a vector.
At(s, i) == s[i + 1]

Range(s) == {s[k] : k \in 1..Len(s)}

(***************************************************************************)
(* Int nodes (the size of an IterDomain, the factor of a Split).  A node   *)
(* is a constant, a fresh symbol (new Int()), or the result of ceilDiv or  *)
(* mul on two nodes.                                                       *)
(***************************************************************************)
IntConst(n) == <<"const", n>>
IntSym(t, i) == <<"sym", t, i>>
ceilDiv(a, b) == <<"ceilDiv", a, b>>
mul(a, b) == <<"mul", a, b>>

RECURSIVE IsConcrete(_)
IsConcrete(n) ==
  CASE n[1] = "const" -> TRUE
    [] n[1] = "sym" -> FALSE
    [] OTHER -> IsConcrete(n[2]) /\ IsConcrete(n[3])

\* The value of a node all of whose leaves are constants.
RECURSIVE Eval(_)
Eval(n) ==
  CASE n[1] = "const" -> n[2]
    [] n[1] = "ceilDiv" -> (Eval(n[2]) + Eval(n[3]) - 1) \div Eval(n[3])
    [] n[1] = "mul" -> Eval(n[2]) * Eval(n[3])
    [] OTHER -> -1

\* Int::same_as: by value, not by pointer.
RECURSIVE Int_same_as(_, _)
Int_same_as(a, b) ==
  IF a[1] # b[1] THEN FALSE
  ELSE CASE a[1] = "const" -> a[2] = b[2]
         [] a[1] = "sym" -> a[2] = b[2] /\ a[3] = b[3]
         [] OTHER -> Int_same_as(a[2], b[2]) /\ Int_same_as(a[3], b[3])

(***************************************************************************)
(* IterDomain                                                              *)
(***************************************************************************)
IterDomain(_size, _parallel_method, _reduction_domain) ==
  [size_ |-> _size,
   parallel_method_ |-> _parallel_method,
   is_reduction_domain_ |-> _reduction_domain]

isReduction(id) == id.is_reduction_domain_

parallel_method(id) == id.parallel_method_

IterDomain_size(id) == id.size_

IterDomain_same_as(a, b) ==
  /\ isReduction(a) = isReduction(b)
  /\ parallel_method(a) = parallel_method(b)
  /\ Int_same_as(IterDomain_size(a), IterDomain_size(b))

(***************************************************************************)
(* TensorDomain: a vector of IterDomain.                                   *)
(***************************************************************************)
TensorDomain_size(td) == Len(td)

\* TensorDomain::axis, line 141-142: a negative index counts from the end.
AxisNormalize(td, i) == IF i < 0 THEN i + TensorDomain_size(td) ELSE i

AxisInBounds(td, i) == i >= 0 /\ i < TensorDomain_size(td)

\* What a read outside the vector can give.
Garbage == IterDomain(IntConst(-1), "Serial", FALSE)

\* The outcomes of TensorDomain::axis(i).  The bounds check is an assert: a
\* build with assertions aborts on a bad index; a build with NDEBUG defined
\* has no check and reads domain[i] outside the vector, which is undefined
\* behaviour: the read returns whatever the memory holds, or faults.
AxisOutcomes(td, i0) ==
  LET i == AxisNormalize(td, i0)
  IN  IF AxisInBounds(td, i)
      THEN {[kind |-> "value", value |-> At(td, i)]}
      ELSE {[kind |-> "assert_failure", value |-> Garbage],
            [kind |-> "fault", value |-> Garbage]}
             \cup {[kind |-> "value", value |-> x] : x \in Range(td) \cup {Garbage}}

\* axis(i) as an expression, for an index that is in bounds.
axis(td, i0) == At(td, AxisNormalize(td, i0))

TensorDomain_same_as(a, b) ==
  IF TensorDomain_size(a) # TensorDomain_size(b) THEN FALSE
  ELSE \A i \in 0..(TensorDomain_size(a) - 1) :
         IterDomain_same_as(axis(a, i), axis(b, i))

(***************************************************************************)
(* Tensor and TensorView                                                   *)
(***************************************************************************)
Tensor(_td) == [domain_ |-> _td]

Tensor_domain(t) == tensors[t].domain_

\* TensorView(const Tensor*, const TensorDomain*)
TensorView_SelfInit(_tensor, _domain) ==
  [tensor_ |-> nullptr,
   domain_ |-> _domain,
   compute_at_view_ |-> nullptr,
   compute_at_axis_ |-> -1]

TensorView_AxisZero(_tensor, _domain) ==
  [tensor_ |-> _tensor,
   domain_ |-> _domain,
   compute_at_view_ |-> nullptr,
   compute_at_axis_ |-> 0]

TensorView(_tensor, _domain) ==
  [tensor_ |-> _tensor,
   domain_ |-> _domain,
   compute_at_view_ |-> nullptr,
   compute_at_axis_ |-> -1]

\* TensorView(const Tensor*)
TensorViewOf(_tensor) ==
  [tensor_ |-> _tensor,
   domain_ |-> Tensor_domain(_tensor),
   compute_at_view_ |-> nullptr,
   compute_at_axis_ |-> -1]

View_tensor(tv) == views[tv].tensor_
View_domain(tv) == views[tv].domain_
getComputeAtView(tv) == views[tv].compute_at_view_
getComputeAtAxis(tv) == views[tv].compute_at_axis_

\* Tensor::MakeDummyTensor(ndims): ndims serial IterDomains, each of a fresh
\* Int, for the tensor that gets handle t.
DummyDomain(t, ndims) ==
  [i \in 1..ndims |-> IterDomain(IntSym(t, i - 1), "Serial", FALSE)]

(***************************************************************************)
(* computeAt                                                               *)
(***************************************************************************)
\* ComputeAt_impl(consumer, producer, axis): TRUE when it returns, FALSE when
\* it rejects the call (it throws).  axis must index the target's domain and
\* the axes the two views share below it must be same_as.
ComputeAt_impl(consumer, producer, _axis) ==
  LET cd == domains[View_domain(consumer)]
      pd == domains[View_domain(producer)]
  IN  /\ AxisInBounds(pd, _axis)
      /\ \A k \in 0..(_axis - 1) :
           /\ AxisInBounds(cd, k)
           /\ IterDomain_same_as(axis(cd, k), axis(pd, k))

computeAt_AssignFirst(self, tv, _axis) ==
  [ok |-> ComputeAt_impl(self, tv, _axis),
   views |-> [views EXCEPT ![self].compute_at_view_ = tv,
                           ![self].compute_at_axis_ = _axis]]

\* TensorView::computeAt(tv, axis): the two assignments come after
\* ComputeAt_impl, and are not reached when it throws.
computeAt(self, tv, _axis) ==
  IF ComputeAt_impl(self, tv, _axis)
  THEN [ok |-> TRUE,
        views |-> [views EXCEPT ![self].compute_at_view_ = tv,
                                ![self].compute_at_axis_ = _axis]]
  ELSE [ok |-> FALSE, views |-> views]

(***************************************************************************)
(* Split, Merge, Reorder records and the Fusion's origin lookup.           *)
(***************************************************************************)
NoInt == <<"none">>

Split_Swapped(_out, _in, _axis, _factor) ==
  [type |-> "Split", out_ |-> _in, in_ |-> _out, axis_ |-> _axis,
   factor_ |-> _factor, pos2axis_ |-> <<>>]

Split(_out, _in, _axis, _factor) ==
  [type |-> "Split", out_ |-> _out, in_ |-> _in, axis_ |-> _axis,
   factor_ |-> _factor, pos2axis_ |-> <<>>]

Merge(_out, _in, _axis) ==
  [type |-> "Merge", out_ |-> _out, in_ |-> _in, axis_ |-> _axis,
   factor_ |-> NoInt, pos2axis_ |-> <<>>]

Reorder(_out, _in, _pos2axis) ==
  [type |-> "Reorder", out_ |-> _out, in_ |-> _in, axis_ |-> -1,
   factor_ |-> NoInt, pos2axis_ |-> _pos2axis]

\* Reorder::same_as: out and in only, pos2axis is not compared.
Reorder_same_as(self, other) ==
  /\ TensorDomain_same_as(domains[self.out_], domains[other.out_])
  /\ TensorDomain_same_as(domains[self.in_], domains[other.in_])

\* Fusion::origin(val): the expressions whose output val is.
Origins(d) == {e \in 1..Len(exprs) : exprs[e].out_ = d}

\* The tensors whose native domain d is.
NativeOf(d) == {t \in 1..Len(tensors) : tensors[t].domain_ = d}

(***************************************************************************)
(* The transformation API.  A call returns                                 *)
(*   [ok, domains, exprs, views, ret]:                                     *)
(* whether it was accepted, the arenas after it, and the view it returns.  *)
(***************************************************************************)
\* err is the kind of error of section 7: "bounds" or "legality".
Rejected(err) ==
  [ok |-> FALSE, err |-> err, domains |-> domains, exprs |-> exprs,
   views |-> views, ret |-> nullptr]

\* The handle the next TensorDomain gets.
NewDomain == Len(domains) + 1

\* A successful call: the new TensorDomain td, its origin expression e (whose
\* out_ is NewDomain) and a new TensorView of the same Tensor t.
Commit_NoExpr(t, td, e) ==
  [ok |-> TRUE,
   err |-> "none",
   domains |-> Append(domains, td),
   exprs |-> exprs,
   views |-> Append(views, TensorView(t, NewDomain)),
   ret |-> Len(views) + 1]

Commit(t, td, e) ==
  [ok |-> TRUE,
   err |-> "none",
   domains |-> Append(domains, td),
   exprs |-> Append(exprs, e),
   views |-> Append(views, TensorView(t, NewDomain)),
   ret |-> Len(views) + 1]

\* Split: axis a becomes an outer axis of size ceilDiv(size, factor) and an
\* inner axis of size factor, both with a's parallel type and reduction flag.
SplitLegal(td, a, factor) == AxisInBounds(td, a) /\ factor > 0

SplitDomain_OuterKeepsSize(td, a, factor) ==
  LET id == axis(td, a)
      f == IntConst(factor)
  IN  SubSeq(td, 1, a)
        \o <<IterDomain(IterDomain_size(id), parallel_method(id), isReduction(id)),
             IterDomain(f, parallel_method(id), isReduction(id))>>
        \o SubSeq(td, a + 2, Len(td))

SplitDomain(td, a, factor) ==
  LET id == axis(td, a)
      f == IntConst(factor)
  IN  SubSeq(td, 1, a)
        \o <<IterDomain(ceilDiv(IterDomain_size(id), f),
                        parallel_method(id), isReduction(id)),
             IterDomain(f, parallel_method(id), isReduction(id))>>
        \o SubSeq(td, a + 2, Len(td))

split_impl(t, in, a, factor) ==
  IF SplitLegal(domains[in], a, factor)
  THEN Commit(t, SplitDomain(domains[in], a, factor),
              Split(NewDomain, in, a, IntConst(factor)))
  ELSE Rejected(IF AxisInBounds(domains[in], a) THEN "legality" ELSE "bounds")

\* Merge: axis a and axis a+1 become one axis of size mul(size_a, size_a+1).
MergeLegal_IgnoresParallel(td, a) ==
  /\ AxisInBounds(td, a)
  /\ AxisInBounds(td, a + 1)
  /\ isReduction(axis(td, a)) = isReduction(axis(td, a + 1))

MergeLegal(td, a) ==
  /\ AxisInBounds(td, a)
  /\ AxisInBounds(td, a + 1)
  /\ isReduction(axis(td, a)) = isReduction(axis(td, a + 1))
  /\ parallel_method(axis(td, a)) = parallel_method(axis(td, a + 1))

MergeDomain(td, a) ==
  LET first == axis(td, a)
      second == axis(td, a + 1)
  IN  SubSeq(td, 1, a)
        \o <<IterDomain(mul(IterDomain_size(first), IterDomain_size(second)),
                        parallel_method(first), isReduction(first))>>
        \o SubSeq(td, a + 3, Len(td))

merge_impl(t, in, a) ==
  IF MergeLegal(domains[in], a)
  THEN Commit(t, MergeDomain(domains[in], a), Merge(NewDomain, in, a))
  ELSE Rejected(IF AxisInBounds(domains[in], a) /\ AxisInBounds(domains[in], a + 1)
                THEN "legality" ELSE "bounds")

\* Reorder: m maps each new position to an old axis, and must be a bijection
\* on 0..rank-1.
ReorderLegal(td, m) ==
  /\ DOMAIN m = 0..(Len(td) - 1)
  /\ \A p \in DOMAIN m : AxisInBounds(td, m[p])
  /\ \A p, q \in DOMAIN m : m[p] = m[q] => p = q

Pos2AxisVector(td, m) == [p \in 1..Len(td) |-> m[p - 1]]

ReorderDomain_Inverse(td, pos2axis) ==
  [p \in 1..Len(td) |->
     axis(td, (CHOOSE q \in 1..Len(td) : pos2axis[q] = p - 1) - 1)]

ReorderDomain(td, pos2axis) ==
  [p \in 1..Len(td) |-> axis(td, pos2axis[p])]

reorder_impl(t, in, m) ==
  IF ReorderLegal(domains[in], m)
  THEN LET pos2axis == Pos2AxisVector(domains[in], m)
       IN  Commit(t, ReorderDomain(domains[in], pos2axis),
                  Reorder(NewDomain, in, pos2axis))
  ELSE Rejected("legality")

\* The overloads on a TensorView.
split(tv, a, factor) == split_impl(View_tensor(tv), View_domain(tv), a, factor)

merge(tv, a) == merge_impl(View_tensor(tv), View_domain(tv), a)

reorder(tv, m) == reorder_impl(View_tensor(tv), View_domain(tv), m)

(***************************************************************************)
(* Inputs of the calls.                                                    *)
(***************************************************************************)
Sizes == {6}
Factors == {0, 2, 4}

AxisChoices ==
  {IterDomain(IntConst(n), "Serial", red) : n \in Sizes, red \in BOOLEAN}
    \cup {IterDomain(IntConst(n), "TIDx", FALSE) : n \in Sizes}

SeqsUpTo(S, n) == UNION {[1..k -> S] : k \in 0..n}

\* The permutations of a set, as sequences.
RECURSIVE PermSeqs(_)
PermSeqs(S) ==
  IF S = {} THEN {<<>>}
  ELSE UNION {{<<x>> \o q : q \in PermSeqs(S \ {x})} : x \in S}

\* The maps handed to reorder for a domain of rank r: every bijection on
\* 0..r-1, and maps that are not one: all positions to axis 0, the last
\* position missing, an axis past the end.
ReorderMaps(r) ==
  {[p \in 0..(r - 1) |-> q[p + 1]] : q \in PermSeqs(0..(r - 1))}
    \cup {[p \in 0..(r - 1) |-> 0],
          [p \in 0..(r - 2) |-> p],
          [p \in 0..(r - 1) |-> p + 1]}

Views == 1..Len(views)
Rank(d) == TensorDomain_size(domains[d])
\* The axis arguments tried on a domain: from one below to one above its axes.
AxisArgs(d) == -1..Rank(d)

NoCall == [op |-> "none", ok |-> TRUE]

\* A Fusion with one tensor for each native domain of tds, and a view of
\* each tensor.
InitWith(tds) ==
  /\ domains = tds
  /\ tensors = [t \in 1..Len(tds) |-> Tensor(t)]
  /\ views = [t \in 1..Len(tds) |-> TensorViewOf(t)]
  /\ exprs = <<>>
  /\ nApplied = [t \in 1..Len(tds) |-> 0]
  /\ lastBind = [t \in 1..Len(tds) |-> <<nullptr, -1>>]
  /\ last = NoCall

\* A tensor of given IterDomains and a dummy tensor.
Init ==
  \E td \in SeqsUpTo(AxisChoices, MaxNativeRank) :
    InitWith(<<td, DummyDomain(2, DummyRank)>>)

(***************************************************************************)
(* Calls of the transformation API.                                        *)
(***************************************************************************)
\* The state after a call of op on view tv with result r.
Apply(r, op, tv, a, factor, m) ==
  /\ last = NoCall
  /\ Len(r.exprs) <= MaxTransforms
  /\ Len(r.domains) <= Len(tensors) + MaxTransforms
  /\ domains' = r.domains
  /\ exprs' = r.exprs
  /\ views' = r.views
  /\ nApplied' = IF Len(r.views) > Len(views)
                 THEN Append(nApplied, nApplied[tv] + 1) ELSE nApplied
  /\ lastBind' = IF Len(r.views) > Len(views)
                 THEN Append(lastBind, <<nullptr, -1>>) ELSE lastBind
  /\ last' = [op |-> op, ok |-> r.ok, err |-> r.err, view |-> tv, axis |-> a,
              factor |-> factor, map |-> m, ret |-> r.ret]
  /\ UNCHANGED tensors

SplitCall(tv, a, factor) == Apply(split(tv, a, factor), "split", tv, a, factor, <<>>)

MergeCall(tv, a) == Apply(merge(tv, a), "merge", tv, a, 0, <<>>)

ReorderCall(tv, m) == Apply(reorder(tv, m), "reorder", tv, -1, 0, m)

\* self->computeAt(tv, axis)
ComputeAtCall(self, tv, a) ==
  LET r == computeAt(self, tv, a)
  IN  /\ last = NoCall
      /\ views' = r.views
      /\ lastBind' = IF ComputeAt_impl(self, tv, a)
                     THEN [lastBind EXCEPT ![self] = <<tv, a>>]
                     ELSE lastBind
      /\ last' = [op |-> "computeAt", ok |-> r.ok, view |-> self,
                  target |-> tv, axis |-> a]
      /\ UNCHANGED <<tensors, domains, exprs, nApplied>>

\* domains[d]->axis(i)
AxisCall(d, i) ==
  /\ last = NoCall
  /\ \E o \in AxisOutcomes(domains[d], i) :
       last' = [op |-> "axis", domain |-> d, i |-> i, out |-> o]
  /\ UNCHANGED <<tensors, domains, views, exprs, nApplied, lastBind>>

\* The caller takes the result of its call and goes on.
Return ==
  /\ last # NoCall
  /\ last' = NoCall
  /\ UNCHANGED <<tensors, domains, views, exprs, nApplied, lastBind>>

(***************************************************************************)
(* Spec: the transformations of the views of the tensors.                  *)
(***************************************************************************)
Next ==
  \/ \E tv \in Views : \E a \in AxisArgs(View_domain(tv)), f \in Factors :
       SplitCall(tv, a, f)
  \/ \E tv \in Views : \E a \in AxisArgs(View_domain(tv)) : MergeCall(tv, a)
  \/ \E tv \in Views : \E m \in ReorderMaps(Rank(View_domain(tv))) :
       ReorderCall(tv, m)
  \/ Return

Spec == Init /\ [][Next]_vars

(***************************************************************************)
(* SpecSched: computeAt calls, in any number, among the views of a tensor  *)
(* before and after a transformation.                                      *)
(***************************************************************************)
NextSched ==
  \/ \E self \in Views, tv \in Views :
       \E a \in AxisArgs(View_domain(tv)) : ComputeAtCall(self, tv, a)
  \/ Next /\ Len(exprs') <= MaxSchedTransforms

SpecSched == Init /\ [][NextSched]_vars

(***************************************************************************)
(* SpecAxis: TensorDomain::axis on every domain and index.                 *)
(***************************************************************************)
InitAxis ==
  \E td \in SeqsUpTo(AxisChoices, MaxAxisRank)
              \cup {DummyDomain(1, n) : n \in 0..MaxAxisRank} :
    InitWith(<<td>>)

NextAxis ==
  \/ \E i \in (-MaxIndex)..MaxIndex : AxisCall(1, i)
  \/ Return

SpecAxis == InitAxis /\ [][NextAxis]_vars

(***************************************************************************)
(* Properties.                                                             *)
(***************************************************************************)
Transforms == {"split", "merge", "reorder"}

\* The domain a transformation call was made on.
CallDomain(c) == domains[View_domain(c.view)]

\* C1: a rejected computeAt(target, axis) call (axis is no index into the
\* target's domain, or an axis the two views share below axis is not same_as)
\* leaves every view's getComputeAtView() and getComputeAtAxis() as they
\* were, whatever calls came before.
C1_RejectedComputeAtKeepsBinding ==
  [][last'.op = "computeAt" =>
       LET cd == domains[View_domain(last'.view)]
           pd == domains[View_domain(last'.target)]
           a == last'.axis
           illegal ==
             \/ a < 0
             \/ a >= Len(pd)
             \/ \E k \in 0..(a - 1) :
                  k >= Len(cd) \/ ~IterDomain_same_as(cd[k + 1], pd[k + 1])
       IN  (illegal \/ ~last'.ok) =>
             /\ ~last'.ok
             /\ \A v \in Views :
                  /\ views'[v].compute_at_view_ = getComputeAtView(v)
                  /\ views'[v].compute_at_axis_ = getComputeAtAxis(v)]_vars

\* A rejected computeAt on a view that an earlier call had bound.
C1_Witness ==
  /\ last.op = "computeAt"
  /\ ~last.ok
  /\ getComputeAtView(last.view) # nullptr

\* C2: axis(i) returns the IterDomain at i when 0 <= i < r, the one at i + r
\* when -r <= i < 0, and fails, returning no element, when i >= r or i < -r.
C2_AxisBoundsChecked ==
  last.op = "axis" =>
    LET td == domains[last.domain]
        r == Len(td)
        i == last.i
    IN  /\ (0 <= i /\ i < r) => last.out = [kind |-> "value", value |-> td[i + 1]]
        /\ (-r <= i /\ i < 0) =>
             last.out = [kind |-> "value", value |-> td[i + r + 1]]
        /\ (i >= r \/ i < -r) => last.out.kind # "value"

\* C3: merge(view, axis) fails with a legality error, and adds no domain,
\* whenever axis and axis+1 of the input domain differ in reduction flag or
\* in parallelization strategy; it succeeds only when both agree.
C3_MergeOfUnlikeAxesFails ==
  [][last'.op = "merge" =>
       LET td == CallDomain(last')
           a == last'.axis
       IN  (a >= 0 /\ a + 1 < Len(td)) =>
             LET differ ==
                   \/ td[a + 1].is_reduction_domain_ # td[a + 2].is_reduction_domain_
                   \/ td[a + 1].parallel_method_ # td[a + 2].parallel_method_
             IN  /\ differ =>
                      /\ ~last'.ok
                      /\ last'.err = "legality"
                      /\ domains' = domains
                      /\ exprs' = exprs
                      /\ views' = views
                 /\ last'.ok => ~differ]_vars

\* A merge of a reduction axis with a non-reduction axis, rejected.
C3_Witness ==
  /\ last.op = "merge"
  /\ ~last.ok
  /\ last.axis >= 0
  /\ last.axis + 1 < Len(CallDomain(last))
  /\ CallDomain(last)[last.axis + 1].is_reduction_domain_
       # CallDomain(last)[last.axis + 2].is_reduction_domain_

\* The Split records s and Merge records m where m merges, at the split axis,
\* the domain s produced: split(a, f) followed by merge(a) on the result.
SplitThenMerge ==
  {<<s, m>> \in (1..Len(exprs)) \X (1..Len(exprs)) :
     /\ exprs[s].type = "Split"
     /\ exprs[m].type = "Merge"
     /\ exprs[m].in_ = exprs[s].out_
     /\ exprs[m].axis_ = exprs[s].axis_}

OriginalExtent(s) == axis(domains[exprs[s].in_], exprs[s].axis_).size_
MergedExtent(m) == axis(domains[exprs[m].out_], exprs[m].axis_).size_

\* C4 as stated: split(a, f) then merge(a) restores the rank and, for an axis
\* of concrete size, the merged extent equals the original extent.
C4_SplitMergeRestoresExtent ==
  \A p \in SplitThenMerge :
    /\ Len(domains[exprs[p[2]].out_]) = Len(domains[exprs[p[1]].in_])
    /\ IsConcrete(OriginalExtent(p[1])) =>
         Eval(MergedExtent(p[2])) = Eval(OriginalExtent(p[1]))

\* C4 as amended: split(a, f) then merge(a) is accepted and restores the rank,
\* and for an axis of concrete size e the merged extent is the least multiple
\* of f that is at least e: it equals e exactly when f divides e.
C4_SplitMergeRoundsUp ==
  /\ \A s \in 1..Len(exprs) :
       exprs[s].type = "Split" =>
         LET td == domains[exprs[s].out_]
             a == exprs[s].axis_
         IN  /\ a + 1 < Len(td)
             /\ td[a + 1].is_reduction_domain_ = td[a + 2].is_reduction_domain_
             /\ td[a + 1].parallel_method_ = td[a + 2].parallel_method_
  /\ \A p \in SplitThenMerge :
       /\ Len(domains[exprs[p[2]].out_]) = Len(domains[exprs[p[1]].in_])
       /\ IsConcrete(OriginalExtent(p[1])) =>
            LET e == Eval(OriginalExtent(p[1]))
                f == exprs[p[1]].factor_[2]
                merged == Eval(MergedExtent(p[2]))
            IN  /\ merged % f = 0
                /\ e <= merged
                /\ merged < e + f
                /\ (merged = e) <=> (e % f = 0)

\* A split of an axis of concrete size by a factor that does not divide it,
\* merged again.
C4_Witness ==
  \E p \in SplitThenMerge :
    /\ IsConcrete(OriginalExtent(p[1]))
    /\ Eval(OriginalExtent(p[1])) % exprs[p[1]].factor_[2] # 0

\* C5: for a domain of rank r and a bijection pos2axis on 0..r-1, reorder
\* gives a domain of rank r whose axis at each position p is same_as the
\* input's axis at pos2axis[p]; the identity gives a domain same_as the input.
C5_ReorderPlacesAxes ==
  last.op = "reorder" =>
    LET td == CallDomain(last)
        r == Len(td)
        m == last.map
        bijection ==
          /\ DOMAIN m = 0..(r - 1)
          /\ {m[p] : p \in DOMAIN m} = 0..(r - 1)
    IN  bijection =>
          /\ last.ok
          /\ LET out == domains[View_domain(last.ret)]
             IN  /\ TensorDomain_size(out) = r
                 /\ \A p \in 0..(r - 1) :
                      IterDomain_same_as(axis(out, p), axis(td, m[p]))
                 /\ (\A p \in 0..(r - 1) : m[p] = p) =>
                      TensorDomain_same_as(out, td)

\* reorder with {0:2, 1:1, 2:0} on a domain of rank 3 whose axes 0 and 2 are
\* not same_as.
C5_Witness ==
  /\ last.op = "reorder"
  /\ last.ok
  /\ Len(CallDomain(last)) = 3
  /\ last.map = [p \in 0..2 |-> 2 - p]
  /\ ~IterDomain_same_as(axis(CallDomain(last), 0), axis(CallDomain(last), 2))

Reorders == {e \in 1..Len(exprs) : exprs[e].type = "Reorder"}

\* C6: two Reorder records whose in domains are same_as and whose out domains
\* are same_as have equal pos2axis: Reorder::same_as never reports two records
\* with different permutations as the same.
C6_ReorderSameAsImpliesSamePermutation ==
  \A e1, e2 \in Reorders :
    Reorder_same_as(exprs[e1], exprs[e2]) =>
      exprs[e1].pos2axis_ = exprs[e2].pos2axis_

\* C7: a successful split, merge or reorder leaves its input view (tensor,
\* domain, compute-at binding), every other view and every existing domain as
\* they were, and returns a new view of the input view's Tensor.
C7_TransformLeavesInput ==
  [][(last'.op \in Transforms /\ last'.ok) =>
       /\ tensors' = tensors
       /\ Len(views') = Len(views) + 1
       /\ \A v \in Views : views'[v] = views[v]
       /\ \A d \in 1..Len(domains) : domains'[d] = domains[d]
       /\ last'.ret = Len(views')
       /\ last'.ret # last'.view
       /\ views'[last'.ret].tensor_ = View_tensor(last'.view)]_vars

\* A transformation of a view that has a compute-at binding.
C7_Witness ==
  /\ last.op \in Transforms
  /\ last.ok
  /\ getComputeAtView(last.view) # nullptr
  /\ last.ret # last.view

\* Whether the arguments of a transformation call are legal.
LegalCall(c) ==
  LET td == CallDomain(c)
      r == Len(td)
      a == c.axis
  IN  CASE c.op = "split" -> 0 <= a /\ a < r /\ c.factor > 0
        [] c.op = "merge" ->
             /\ 0 <= a
             /\ a + 1 < r
             /\ td[a + 1].is_reduction_domain_ = td[a + 2].is_reduction_domain_
             /\ td[a + 1].parallel_method_ = td[a + 2].parallel_method_
        [] c.op = "reorder" ->
             /\ DOMAIN c.map = 0..(r - 1)
             /\ {c.map[p] : p \in DOMAIN c.map} = 0..(r - 1)

RecordType(op) ==
  CASE op = "split" -> "Split" [] op = "merge" -> "Merge" [] op = "reorder" -> "Reorder"

\* C8: a rejected split, merge or reorder (an axis out of range, unlike axes
\* merged, a map that is no bijection) adds no domain and no expression and
\* changes no node or view; an accepted one adds the new domain and its
\* record together; no state has one of the two without the other.
C8_TransformAllOrNothing ==
  [][last'.op \in Transforms =>
       /\ last'.ok <=> LegalCall(last')
       /\ ~last'.ok =>
            /\ domains' = domains
            /\ exprs' = exprs
            /\ views' = views
            /\ tensors' = tensors
       /\ last'.ok =>
            /\ Len(domains') = Len(domains) + 1
            /\ SubSeq(domains', 1, Len(domains)) = domains
            /\ Len(exprs') = Len(exprs) + 1
            /\ SubSeq(exprs', 1, Len(exprs)) = exprs
            /\ exprs'[Len(exprs')].type = RecordType(last'.op)
            /\ exprs'[Len(exprs')].out_ = Len(domains')
            /\ exprs'[Len(exprs')].in_ = View_domain(last'.view)
       /\ Len(exprs') = Len(domains') - Len(tensors')]_vars

\* A rejected transformation in a graph that holds an earlier one.
C8_Witness ==
  /\ last.op \in Transforms
  /\ ~last.ok
  /\ Len(exprs) > 0

\* The number of origin steps from domain d back to a domain without origin,
\* and that domain.
RECURSIVE Steps(_)
Steps(d) ==
  IF Origins(d) = {} THEN 0
  ELSE 1 + Steps(exprs[CHOOSE e \in Origins(d) : TRUE].in_)

RECURSIVE Root(_)
Root(d) ==
  IF Origins(d) = {} THEN d
  ELSE Root(exprs[CHOOSE e \in Origins(d) : TRUE].in_)

\* C9: every domain a transformation produced has exactly one origin
\* expression, made by the same call, whose in domain is an earlier domain;
\* a native domain has none; and from a view's domain the origins lead back
\* to its Tensor's native domain in as many steps as transformations were
\* applied.
C9_OriginHistory ==
  /\ \A d \in 1..Len(domains) :
       IF NativeOf(d) # {}
       THEN Origins(d) = {}
       ELSE /\ Cardinality(Origins(d)) = 1
            /\ \A e \in Origins(d) :
                 /\ e = d - Len(tensors)
                 /\ exprs[e].in_ < d
  /\ \A v \in Views :
       /\ Steps(View_domain(v)) = nApplied[v]
       /\ Root(View_domain(v)) = Tensor_domain(View_tensor(v))

\* A view two transformations away from its tensor's native domain.
C9_Witness ==
  \E v \in Views : nApplied[v] = 2 /\ Steps(View_domain(v)) = 2

\* C10: a view's (getComputeAtView(), getComputeAtAxis()) is (null, -1) when
\* no computeAt on it was accepted, and otherwise the (target, axis) of the
\* last accepted call; a null view goes with axis -1.
C10_BindingIsLastAccepted ==
  \A v \in Views :
    /\ <<getComputeAtView(v), getComputeAtAxis(v)>> = lastBind[v]
    /\ getComputeAtView(v) = nullptr => getComputeAtAxis(v) = -1

\* A rejected call after an accepted one, beside a view that was never bound.
C10_Witness ==
  /\ last.op = "computeAt"
  /\ ~last.ok
  /\ lastBind[last.view] # <<nullptr, -1>>
  /\ lastBind[last.view] # <<last.target, last.axis>>
  /\ \E w \in Views : lastBind[w] = <<nullptr, -1>>

====
